---- MODULE Spec2Model ----
(***************************************************************************)
(* The revolved-mesh geometry engine of machtool: mesh.py (Patch, Mesh,    *)
(* RevolvedMesh, getSinCosCache, windowItr) and bbox.py (BBox).            *)
(*                                                                         *)
(* Numbers.  The source computes in floating point.  The model computes in *)
(* integers on a grid whose unit is the weld tolerance of                  *)
(* Mesh.verticesEqual (1e-8): a coordinate c of the model is c * 1e-8 in   *)
(* the source.  Two coordinates that differ by one unit are therefore      *)
(* "equal" for the weld search, two that differ by two units are not.      *)
(* Indices are Python's (0-based); sequence element i is seq[i + 1].       *)
(*                                                                         *)
(* Normals.  QVector3D.normalize() is modelled by Normalize, which maps a  *)
(* vector to the shortest integer vector of the same direction and the     *)
(* zero vector to itself: a normal of the model is a direction, and the    *)
(* source's "length 1" is the model's "not the zero vector".               *)
(***************************************************************************)
EXTENDS Integers, Sequences, FiniteSets, TLC

VARIABLES
    patches,              \* Mesh._patches: sequence of Patch records
    vertices,             \* Mesh._vertices
    normals,              \* Mesh._normals
    sharedVertices,       \* Mesh._sharedVertices
    nVertices,            \* Mesh._nVertices
    prevPatchStartIndex,  \* Mesh._prevPatchStartIndex
    bbox,                 \* Mesh._bbox: <<>> is None, else BBox._coords <<p1, p2>>
    raw,                  \* history: every position submitted to addVertex, in order
    contrib,              \* history: per vertex, the <<patch number, normal>> pairs summed into it
    cur,                  \* SpecMesh: the Patch under construction, <<>> or <<patch>>
    pc,                   \* SpecProfile: "idle", or "loop" inside addProfile
    profile,              \* addProfile's local variable profile
    callerProfile,        \* the list object the caller passed to addProfile
    idx,                  \* addProfile's loop: the windows consumed so far
    px1,                  \* addProfile's px1, py1: <<>> for None, else <<x, y>>
    ncall,                \* history: profiles this mesh was given so far
    pre,                  \* history: the mesh when the last addProfile call began
    built,                \* history: <<>>, or <<the first mesh built from the
                          \* profile object and the profile as it was passed>>
    call,                 \* the operation that ran last and its arguments
    ret,                  \* what it returned (-1: nothing)
    err                   \* the exception it raised ("" : none)

meshVars == <<patches, vertices, normals, sharedVertices, nVertices,
              prevPatchStartIndex, raw, contrib>>
profVars == <<pc, profile, callerProfile, idx, px1, ncall, pre, built>>
vars == <<patches, vertices, normals, sharedVertices, nVertices,
          prevPatchStartIndex, bbox, raw, contrib, cur, call, ret, err,
          pc, profile, callerProfile, idx, px1, ncall, pre, built>>

(***************************************************************************)
(* Bounds of the model.                                                    *)
(***************************************************************************)
MaxCalls == 3
MaxCoord == 2

(***************************************************************************)
(* Program constants.                                                      *)
(***************************************************************************)
\* verticesEqual's eps = 1e-8: the unit of the grid.
eps == 1
\* numpy.allclose's defaults: atol = 1e-8 (one unit), rtol = 1e-5.
atol == 1
rtolInv == 100000
\* Mesh._prevPatchStartIndex = 1e10, "no blend": above every vertex count.
\* 1e10 does not fit TLC's 32-bit integers; the model uses 1e9.
Sentinel == 1000000000

(***************************************************************************)
(* Arithmetic.                                                             *)
(***************************************************************************)
Abs(x) == IF x < 0 THEN -x ELSE x
Min2(a, b) == IF a <= b THEN a ELSE b
Max2(a, b) == IF a >= b THEN a ELSE b

RECURSIVE GCD(_, _)
GCD(a, b) == IF b = 0 THEN a ELSE GCD(b, a % b)

VecAdd(a, b) == <<a[1] + b[1], a[2] + b[2], a[3] + b[3]>>
VecSub(a, b) == <<a[1] - b[1], a[2] - b[2], a[3] - b[3]>>
Cross(u, w) == <<u[2] * w[3] - u[3] * w[2],
                 u[3] * w[1] - u[1] * w[3],
                 u[1] * w[2] - u[2] * w[1]>>

\* QVector3D.normalize(): the direction of v; the zero vector stays zero.
Normalize(v) ==
    LET g == GCD(GCD(Abs(v[1]), Abs(v[2])), Abs(v[3]))
    IN  IF g = 0 THEN v ELSE <<v[1] \div g, v[2] \div g, v[3] \div g>>

(***************************************************************************)
(* Mesh.  The operations are functions of a mesh record m, so that Patch   *)
(* can chain them; the actions below copy the record to the variables.     *)
(***************************************************************************)
MeshRec ==
    [patches |-> patches, vertices |-> vertices, normals |-> normals,
     sharedVertices |-> sharedVertices, nVertices |-> nVertices,
     prevPatchStartIndex |-> prevPatchStartIndex, raw |-> raw,
     contrib |-> contrib]

\* Mesh.__init__
EmptyMesh ==
    [patches |-> <<>>, vertices |-> <<>>, normals |-> <<>>,
     sharedVertices |-> <<>>, nVertices |-> 0,
     prevPatchStartIndex |-> Sentinel, raw |-> <<>>, contrib |-> <<>>]

SetMesh(m) ==
    /\ patches' = m.patches
    /\ vertices' = m.vertices
    /\ normals' = m.normals
    /\ sharedVertices' = m.sharedVertices
    /\ nVertices' = m.nVertices
    /\ prevPatchStartIndex' = m.prevPatchStartIndex
    /\ raw' = m.raw
    /\ contrib' = m.contrib

\* Mesh.verticesEqual, compared on the first axis only (mutant).
verticesEqualX(v1, v2) == ~(Abs(v1[1] - v2[1]) > eps)

\* Mesh.verticesEqual
verticesEqual(v1, v2) ==
    /\ ~(Abs(v1[1] - v2[1]) > eps)
    /\ ~(Abs(v1[2] - v2[2]) > eps)
    /\ ~(Abs(v1[3] - v2[3]) > eps)

\* The sharedVertices pass comparing with the newest entry only (mutant).
DedupSharedLastOnly(shared, v) ==
    IF Len(shared) > 0 /\ verticesEqual(v, shared[Len(shared)])
    THEN shared ELSE Append(shared, v)

\* Mesh.addVertex, the sharedVertices pass: for vv in reversed: break on equal,
\* else append.
DedupShared(shared, v) ==
    IF \E k \in 1..Len(shared) : verticesEqual(v, shared[k])
    THEN shared ELSE Append(shared, v)

\* The backward scan started at the window's floor, going up (mutant): it
\* finds the lowest match.
RECURSIVE FindWeldUp(_, _, _, _)
FindWeldUp(vs, v, i, startIndex) ==
    IF i < startIndex THEN -1
    ELSE IF verticesEqual(vs[startIndex + 1], v) THEN startIndex
    ELSE FindWeldUp(vs, v, i, startIndex + 1)

\* Mesh.addVertex, the backward scan: i = nVertices - 1; while i >= startIndex.
\* The index of the match, -1 when the scan ends without one.
RECURSIVE FindWeld(_, _, _, _)
FindWeld(vs, v, i, startIndex) ==
    IF i < startIndex THEN -1
    ELSE IF verticesEqual(vs[i + 1], v) THEN i
    ELSE FindWeld(vs, v, i - 1, startIndex)

\* The number of the patch being built: it is appended to _patches when done.
CurPatch(m) == Len(m.patches) + 1

\* The append without the counter (mutant).
AppendVertexNoCount(m, v, n) ==
    [m EXCEPT !.vertices = Append(@, v),
              !.normals = Append(@, n),
              !.contrib = Append(@, <<<<CurPatch(m), n>>>>)]

\* Mesh.addVertex, "vertex not found or it's an apex vertex".
AppendVertex(m, v, n) ==
    [m EXCEPT !.vertices = Append(@, v),
              !.normals = Append(@, n),
              !.nVertices = @ + 1,
              !.contrib = Append(@, <<<<CurPatch(m), n>>>>)]

\* The weld that also moves the vertex to the submitted position (mutant).
WeldVertexMoving(m, i, v, n) ==
    [m EXCEPT !.normals[i + 1] = Normalize(VecAdd(@, n)),
              !.vertices[i + 1] = v,
              !.contrib[i + 1] = Append(@, <<CurPatch(m), n>>)]

\* Mesh.addVertex, "vertex found": nn += n; nn.normalize(); normals[i] = nn.
WeldVertex(m, i, v, n) ==
    [m EXCEPT !.normals[i + 1] = Normalize(VecAdd(@, n)),
              !.contrib[i + 1] = Append(@, <<CurPatch(m), n>>)]

\* Whether addVertex searches at all; ignoring the flag (mutant).
SkipSearchNever(apex) == FALSE

\* Mesh.addVertex: "if not apex".
SkipSearch(apex) == apex

\* A search floor that never reaches into the previous patch (mutant).
WeldFloorOwnPatch(m, startIndex) == startIndex

\* Mesh.addVertex: startIndex = min(startIndex, self._prevPatchStartIndex)
WeldFloor(m, startIndex) == Min2(startIndex, m.prevPatchStartIndex)

\* addVertex that returns the new vertex count after an append (mutant).
addVertexCount(m, v, n, startIndex, apex) ==
    LET m1 == [m EXCEPT !.sharedVertices = DedupShared(@, v),
                        !.raw = Append(@, v)]
        floor == WeldFloor(m, startIndex)
        i == IF SkipSearch(apex) THEN -1
             ELSE FindWeld(m.vertices, v, m.nVertices - 1, floor)
    IN  IF i >= 0
        THEN [m |-> WeldVertex(m1, i, v, n), ret |-> i]
        ELSE LET m2 == AppendVertex(m1, v, n)
             IN  [m |-> m2, ret |-> m2.nVertices]

\* Mesh.addVertex.  [m |-> the mesh after the call, ret |-> the index returned]
addVertex(m, v, n, startIndex, apex) ==
    LET m1 == [m EXCEPT !.sharedVertices = DedupShared(@, v),
                        !.raw = Append(@, v)]
        floor == WeldFloor(m, startIndex)
        i == IF SkipSearch(apex) THEN -1
             ELSE FindWeld(m.vertices, v, m.nVertices - 1, floor)
    IN  IF i >= 0
        THEN [m |-> WeldVertex(m1, i, v, n), ret |-> i]
        ELSE LET m2 == AppendVertex(m1, v, n)
             IN  [m |-> m2, ret |-> m2.nVertices - 1]

\* blendTangent that reaches into the previous patch whatever the verdict
\* (mutant).
blendTangentAlways(m, blend) ==
    IF Len(m.patches) > 0
    THEN [m EXCEPT !.prevPatchStartIndex = m.patches[Len(m.patches)].startIndex]
    ELSE [m EXCEPT !.prevPatchStartIndex = Sentinel]

\* blendTangent that takes the start of the first patch of the mesh (mutant).
blendTangentFirst(m, blend) ==
    IF blend /\ Len(m.patches) > 0
    THEN [m EXCEPT !.prevPatchStartIndex = m.patches[1].startIndex]
    ELSE [m EXCEPT !.prevPatchStartIndex = Sentinel]

\* Mesh.blendTangent
blendTangent(m, blend) ==
    IF blend /\ Len(m.patches) > 0
    THEN [m EXCEPT !.prevPatchStartIndex = m.patches[Len(m.patches)].startIndex]
    ELSE [m EXCEPT !.prevPatchStartIndex = Sentinel]

\* Patch.__init__ that starts every patch at index 0 (mutant).
PatchAtZero(m) ==
    [startIndex |-> 0, indices |-> <<>>, nTris |-> 0,
     tan |-> "none", call |-> 0, kind |-> "", ends |-> <<>>,
     strips |-> <<>>, arcSegs |-> 0]

\* Patch.__init__: the fields the mesh engine reads or writes, and history
\* that addProfile fills in.  tan: what addProfile passed to blendTangent
\* before it built the patch ("tangent" or "sharp": the verdict of a tangency
\* test, "off": False without a test, "none": no call); call: the addProfile
\* call; kind: "line" or "arc"; ends: the segment's start and end point;
\* strips: the <<x1, y1, x2, y2>> of each addRevLineSeg call on the patch;
\* arcSegs: the segment count addRevArcSeg computed (0: it did not run).
Patch(m) ==
    [startIndex |-> m.nVertices, indices |-> <<>>, nTris |-> 0,
     tan |-> "none", call |-> 0, kind |-> "", ends |-> <<>>,
     strips |-> <<>>, arcSegs |-> 0]

(***************************************************************************)
(* The sin/cos ring cache.  Angles are whole degrees, multiples of 10; sin *)
(* and cos are fixed-point numbers, thousandths.                           *)
(***************************************************************************)
\* RevolvedMesh.segs: 32 in the source; the model revolves over 4 samples.
segs == 4

\* math.sin of a multiple of 10 degrees in 0..90, in thousandths
SinTable == <<0, 174, 342, 500, 643, 766, 866, 940, 985, 1000>>

\* math.sin of a multiple of 10 degrees, in thousandths
SinDeg(d) ==
    LET a == d % 360
    IN  CASE a <= 90 -> SinTable[(a \div 10) + 1]
          [] a > 90 /\ a <= 180 -> SinTable[((180 - a) \div 10) + 1]
          [] a > 180 /\ a <= 270 -> -SinTable[((a - 180) \div 10) + 1]
          [] a > 270 -> -SinTable[((360 - a) \div 10) + 1]

\* math.cos of a multiple of 10 degrees, in thousandths
CosDeg(d) == SinDeg(d + 90)

\* r * t for a sine or cosine t, rounded to the grid
Scaled(r, t) == (r * t + 500) \div 1000

\* windowItr(seq, sz, step): the windows seq[i:i+sz], i = 0, step, ... (n of
\* them, n = (len(seq) - sz) / step + 1, none when n <= 0)
windowItr(seq, sz, step) ==
    LET n == ((Len(seq) - sz) \div step) + 1
    IN  [k \in 1..Max2(n, 0) |->
            SubSeq(seq, (k - 1) * step + 1, (k - 1) * step + sz)]

\* The cache without the closing sample: rangs stops at step * (nSegs - 1)
\* (mutant).
getSinCosCacheOpen(nSegs) ==
    LET step == 360 \div nSegs
        rangs == [i \in 1..nSegs |-> step * (i - 1)]
        w == windowItr(rangs, 2, 1)
    IN  [k \in 1..Len(w) |-> <<<<SinDeg(w[k][1]), CosDeg(w[k][1])>>,
                                <<SinDeg(w[k][2]), CosDeg(w[k][2])>>>>]

\* getSinCosCache(nSegs): <<<<sin a1, cos a1>>, <<sin a2, cos a2>>>> for each
\* pair of neighbouring angles of [0, step, ..., step * (nSegs - 1), 0]
getSinCosCache(nSegs) ==
    LET step == 360 \div nSegs
        rangs == [i \in 1..(nSegs + 1) |->
                     IF i = nSegs + 1 THEN 0 ELSE step * (i - 1)]
        w == windowItr(rangs, 2, 1)
    IN  [k \in 1..Len(w) |-> <<<<SinDeg(w[k][1]), CosDeg(w[k][1])>>,
                                <<SinDeg(w[k][2]), CosDeg(w[k][2])>>>>]

\* RevolvedMesh.sincos
sincos == getSinCosCache(segs)

(***************************************************************************)
(* Patch.  A build state st is [m |-> the mesh, p |-> the patch].          *)
(***************************************************************************)
\* np.allclose(a, b) of two numbers
allcloseNum(a, b) == Abs(a - b) * rtolInv <= atol * rtolInv + Abs(b)

\* QVector3D.normal(a, b, c): the normalized cross product of b - a and c - a
FaceNormal(a, b, c) == Normalize(Cross(VecSub(b, a), VecSub(c, a)))

\* Statement order: F applied to the value of e, e computed once, before F
\* runs.
Then(e, F(_)) == CHOOSE out \in {F(v) : v \in {e}} : TRUE

\* addTri that never sets the apex flag (mutant).
addTriNoApex(st, a, b, c, apexVertex) ==
    LET n == FaceNormal(a, b, c)
        s == st.p.startIndex
    IN  Then(addVertex(st.m, a, n, s, FALSE), LAMBDA r1 :
        Then(addVertex(r1.m, b, n, s, FALSE), LAMBDA r2 :
        Then(addVertex(r2.m, c, n, s, FALSE), LAMBDA r3 :
             [m |-> r3.m,
              p |-> [st.p EXCEPT
                        !.indices = @ \o <<r1.ret, r2.ret, r3.ret>>,
                        !.nTris = @ + 1]])))

\* Patch.addTri; apexVertex is <<>> for None
addTri(st, a, b, c, apexVertex) ==
    LET n == FaceNormal(a, b, c)
        s == st.p.startIndex
    IN  Then(addVertex(st.m, a, n, s, apexVertex = a), LAMBDA r1 :
        Then(addVertex(r1.m, b, n, s, apexVertex = b), LAMBDA r2 :
        Then(addVertex(r2.m, c, n, s, apexVertex = c), LAMBDA r3 :
             [m |-> r3.m,
              p |-> [st.p EXCEPT
                        !.indices = @ \o <<r1.ret, r2.ret, r3.ret>>,
                        !.nTris = @ + 1]])))

\* addQuad that emits the first triangle only (mutant).
addQuadHalf(st, a, b, c, d) == addTri(st, a, b, c, <<>>)

\* Patch.addQuad
addQuad(st, a, b, c, d) ==
    Then(addTri(st, a, b, c, <<>>), LAMBDA st1 : addTri(st1, d, a, c, <<>>))

\* Patch.addRevLineSeg, the body of the loop over mesh.sincos for pair k
RevLineTris(st, x1, y1, x2, y2, k) ==
    LET sa1 == sincos[k][1][1]
        ca1 == sincos[k][1][2]
        sa2 == sincos[k][2][1]
        ca2 == sincos[k][2][2]
    IN  IF allcloseNum(x1, 0)
        THEN LET a == <<x1, y1, 0>>
                 b == <<Scaled(x2, sa2), y2, Scaled(x2, ca2)>>
                 c == <<Scaled(x2, sa1), y2, Scaled(x2, ca1)>>
             IN  addTri(st, a, b, c, IF allcloseNum(y1, y2) THEN <<>> ELSE a)
        ELSE IF allcloseNum(x2, 0)
        THEN LET a == <<x2, y2, 0>>
                 b == <<Scaled(x1, sa1), y1, Scaled(x1, ca1)>>
                 c == <<Scaled(x1, sa2), y1, Scaled(x1, ca2)>>
             IN  addTri(st, a, b, c, IF allcloseNum(y1, y2) THEN <<>> ELSE a)
        ELSE addQuad(st,
                     <<Scaled(x1, sa1), y1, Scaled(x1, ca1)>>,
                     <<Scaled(x1, sa2), y1, Scaled(x1, ca2)>>,
                     <<Scaled(x2, sa2), y2, Scaled(x2, ca2)>>,
                     <<Scaled(x2, sa1), y2, Scaled(x2, ca1)>>)

RECURSIVE RevLineLoop(_, _, _, _, _, _)
RevLineLoop(st, x1, y1, x2, y2, k) ==
    IF k > Len(sincos) THEN st
    ELSE Then(RevLineTris(st, x1, y1, x2, y2, k), LAMBDA st1 :
              RevLineLoop(st1, x1, y1, x2, y2, k + 1))

\* Patch.addRevLineSeg
addRevLineSeg(st, x1, y1, x2, y2) ==
    Then([st EXCEPT !.p.strips = Append(@, <<x1, y1, x2, y2>>)], LAMBDA st0 :
         RevLineLoop(st0, x1, y1, x2, y2, 1))

\* Patch.fromRevLineSeg
fromRevLineSeg(x1, y1, x2, y2, m) ==
    Then([m |-> m, p |-> Patch(m)], LAMBDA st :
         addRevLineSeg(st, x1, y1, x2, y2))

(***************************************************************************)
(* Arc (arc.py), as far as Patch.addRevArcSeg uses it: fromVectors, span,  *)
(* startAngle, endAngle.  Angles are whole degrees on the 30 degree grid.  *)
(***************************************************************************)
Dot2(u, w) == u[1] * w[1] + u[2] * w[2]

\* math.sqrt(a*a + b*b) / QVector2D.length(), rounded to the grid
VLen(v) ==
    LET n == Dot2(v, v)
    IN  CHOOSE r \in 0..(Abs(v[1]) + Abs(v[2])) :
           /\ r = 0 \/ (2 * r - 1) * (2 * r - 1) <= 4 * n
           /\ 4 * n < (2 * r + 1) * (2 * r + 1)

AngleGrid == {30 * k : k \in 0..11}

\* The angle of a direction vector (atan2), on the grid; 0 for the zero vector
AngleOf(v) ==
    IF v[1] = 0 /\ v[2] = 0 THEN 0
    ELSE LET off(g) == Abs(v[1] * SinDeg(g) - v[2] * CosDeg(g))
             along(g) == v[1] * CosDeg(g) + v[2] * SinDeg(g)
         IN  CHOOSE g \in AngleGrid :
                /\ along(g) > 0
                /\ \A h \in AngleGrid : along(h) > 0 => off(g) <= off(h)

\* Arc.fromVectors(v1, v2, radius, cclw): the arc from v1's angle to v2's in
\* the given sense, its span in (0, 360] (cclw) or [-360, 0) (clw)
ArcFromVectors(v1, v2, r, cclw) ==
    LET sa == AngleOf(v1)
        ea == AngleOf(v2)
        d == IF cclw THEN (ea - sa) % 360 ELSE (sa - ea) % 360
        sweep == IF d = 0 THEN 360 ELSE d
    IN  [startAngle |-> sa, span |-> IF cclw THEN sweep ELSE -sweep,
         radius |-> r]

\* Arc.endAngle
ArcEndAngle(arc) == arc.startAngle + arc.span

\* The segment count with the minimum of 2 that the source's comment names
\* (mutant).
ArcSegsMinTwo(span) == Max2(Abs(span) \div (360 \div segs), 2)

\* Patch.addRevArcSeg: segs = max(int(abs(arc.span()) / angstep), 3)
ArcSegs(span) == Max2(Abs(span) \div (360 \div segs), 3)

\* The loop of addRevArcSeg without "if i == 1: blendTangent(False)"
\* (mutant).
RECURSIVE ArcLoopBlendAll(_, _, _, _, _, _)
ArcLoopBlendAll(st, c, r, arc, n, i) ==
    LET step == arc.span \div n
        a1 == arc.startAngle + step * (i - 1)
        a2 == IF i < n THEN arc.startAngle + step * i ELSE ArcEndAngle(arc)
        x1 == c[1] + Scaled(r, CosDeg(a1))
        y1 == c[2] + Scaled(r, SinDeg(a1))
        x2 == c[1] + Scaled(r, CosDeg(a2))
        y2 == c[2] + Scaled(r, SinDeg(a2))
    IN  Then(addRevLineSeg(st, x1, y1, x2, y2), LAMBDA st1 :
           IF i < n THEN ArcLoopBlendAll(st1, c, r, arc, n, i + 1) ELSE st1)

\* Patch.addRevArcSeg, the loop "for i in range(1, segs)" from i on and its
\* else clause, the last strip.  The strip's start angle a1 is sa + step *
\* (i - 1): the loop carries a2 over to a1.
RECURSIVE ArcLoop(_, _, _, _, _, _)
ArcLoop(st, c, r, arc, n, i) ==
    LET step == arc.span \div n
        a1 == arc.startAngle + step * (i - 1)
        a2 == IF i < n THEN arc.startAngle + step * i ELSE ArcEndAngle(arc)
        x1 == c[1] + Scaled(r, CosDeg(a1))
        y1 == c[2] + Scaled(r, SinDeg(a1))
        x2 == c[1] + Scaled(r, CosDeg(a2))
        y2 == c[2] + Scaled(r, SinDeg(a2))
    IN  Then(addRevLineSeg(st, x1, y1, x2, y2), LAMBDA st1 :
           IF i < n
           THEN Then(IF i = 1 THEN [st1 EXCEPT !.m = blendTangent(@, FALSE)]
                     ELSE st1,
                     LAMBDA st2 : ArcLoop(st2, c, r, arc, n, i + 1))
           ELSE st1)

\* Patch.addRevArcSeg
addRevArcSeg(st, x1, y1, x2, y2, cx, cy, arcDir) ==
    LET a == x1 - cx
        b == y1 - cy
        r == VLen(<<a, b>>)
        arc == ArcFromVectors(<<a, b>>, <<x2 - cx, y2 - cy>>, r,
                              arcDir = "cclw")
    IN  Then(arc, LAMBDA arc0 :
        Then([st EXCEPT !.p.arcSegs = ArcSegs(arc0.span)], LAMBDA st0 :
             ArcLoop(st0, <<cx, cy>>, arc0.radius, arc0, st0.p.arcSegs, 1)))

\* Patch.fromRevArcSeg
fromRevArcSeg(x1, y1, x2, y2, cx, cy, arcDir, m) ==
    Then([m |-> m, p |-> Patch(m)], LAMBDA st :
         addRevArcSeg(st, x1, y1, x2, y2, cx, cy, arcDir))

(***************************************************************************)
(* RevolvedMesh.  A profile element is a point <<x, y>> or an arc          *)
(* <<<<endX, endY>>, <<centerX, centerY>>, "cclw" or "clw">>.              *)
(***************************************************************************)
\* _isLineTanToArc that takes the arc's centre from the line's start, not
\* from the shared point (mutant).
isLineTanToArcFromStart(x1, y1, x2, y2, cx, cy) ==
    LET v1 == <<x2 - x1, y2 - y1>>
        v2 == <<x1 - cx, y1 - cy>>
    IN  Abs(Dot2(v1, v2)) <= (VLen(v1) * VLen(v2)) \div 1000000

\* RevolvedMesh._isLineTanToArc: abs(v1 . v2) <= 1e-6 for the normalized
\* v1 = p - line start, v2 = p - arc center, p = (x2, y2)
isLineTanToArc(x1, y1, x2, y2, cx, cy) ==
    LET v1 == <<x2 - x1, y2 - y1>>
        v2 == <<x2 - cx, y2 - cy>>
    IN  Abs(Dot2(v1, v2)) <= (VLen(v1) * VLen(v2)) \div 1000000

\* RevolvedMesh._isArcTangentToArc: abs(v1 . v2) - 1.0 <= 1e-6 for the
\* normalized v1 = p - c1 and v2 = p - c1 (sic: the source reads cx1, cy1
\* twice and never cx2, cy2)
isArcTangentToArc(px, py, cx1, cy1, cx2, cy2) ==
    LET v1 == <<px - cx1, py - cy1>>
        v2 == <<px - cx1, py - cy1>>
        n12 == Dot2(v1, v1) * Dot2(v2, v2)
    IN  Dot2(v1, v2) * Dot2(v1, v2) <= n12 + n12 \div 500000

\* e[0] != 0.0 for a profile element e: a point's x, an arc's end point
\* (a tuple, which never equals 0.0)
HeadNonZero(e) == IF Len(e) = 2 THEN e[1] # 0 ELSE TRUE

\* "if close:" that appends the closing point without looking at the last
\* element (mutant).
CloseProfileAppends(prof, close) ==
    IF ~close THEN [err |-> "", local |-> prof, caller |-> prof]
    ELSE IF Len(prof) = 0
    THEN [err |-> "IndexError", local |-> prof, caller |-> prof]
    ELSE LET e1 == prof[1]
             fresh == HeadNonZero(e1)
             l1 == IF fresh THEN <<<<0, e1[2]>>>> \o prof ELSE prof
             e2 == l1[Len(l1)]
             l2 == Append(l1, IF Len(e2) = 2 THEN <<0, e2[2]>>
                              ELSE <<0, e2[1][2]>>)
         IN  [err |-> "", local |-> l2,
              caller |-> IF fresh THEN prof ELSE l2]

\* RevolvedMesh.addProfile, "if close:".  [err, local: the list the loop
\* walks, caller: the caller's list afterwards]
CloseProfile(prof, close) ==
    IF ~close THEN [err |-> "", local |-> prof, caller |-> prof]
    ELSE IF Len(prof) = 0
    THEN [err |-> "IndexError", local |-> prof, caller |-> prof]
    ELSE LET e1 == prof[1]
             fresh == HeadNonZero(e1)
             l1 == IF fresh THEN <<<<0, e1[2]>>>> \o prof ELSE prof
             e2 == l1[Len(l1)]
             l2 == IF HeadNonZero(e2)
                   THEN Append(l1, IF Len(e2) = 2 THEN <<0, e2[2]>>
                                   ELSE <<0, e2[1][2]>>)
                   ELSE l1
         IN  [err |-> "", local |-> l2,
              caller |-> IF fresh THEN prof ELSE l2]

\* patch.setColor; self._patches.append(patch), with the history fields
AppendPatch(st, tan, k, kind, ends) ==
    [st.m EXCEPT !.patches = Append(@, [st.p EXCEPT !.tan = tan, !.call = k,
                                                    !.kind = kind,
                                                    !.ends = ends])]

TanName(b) == IF b THEN "tangent" ELSE "sharp"

\* RevolvedMesh.addProfile, the loop body for the window <<e1, e2>>.
\* [m |-> the mesh afterwards, px1 |-> px1, py1 afterwards]
ProfileStep(m, e1, e2, p1, k) ==
    IF Len(e1) = 2 /\ Len(e2) = 2
    THEN LET m1 == blendTangent(m, FALSE)
             st == fromRevLineSeg(e1[1], e1[2], e2[1], e2[2], m1)
         IN  [m |-> AppendPatch(st, "off", k, "line", <<e1, e2>>), px1 |-> e1]
    ELSE IF Len(e1) = 2 /\ Len(e2) = 3
    THEN LET tan == isLineTanToArc(p1[1], p1[2], e1[1], e1[2],
                                   e2[2][1], e2[2][2])
             m1 == IF p1 # <<>> THEN blendTangent(m, tan) ELSE m
             st == fromRevArcSeg(e1[1], e1[2], e2[1][1], e2[1][2],
                                 e2[2][1], e2[2][2], e2[3], m1)
         IN  [m |-> AppendPatch(st, IF p1 # <<>> THEN TanName(tan)
                                    ELSE "none", k, "arc", <<e1, e2[1]>>),
              px1 |-> p1]
    ELSE IF Len(e1) = 3 /\ Len(e2) = 2
    THEN LET tan == isLineTanToArc(e2[1], e2[2], e1[1][1], e1[1][2],
                                   e1[2][1], e1[2][2])
             m1 == blendTangent(m, tan)
             st == fromRevLineSeg(e1[1][1], e1[1][2], e2[1], e2[2], m1)
         IN  [m |-> AppendPatch(st, TanName(tan), k, "line", <<e1[1], e2>>),
              px1 |-> e1[1]]
    ELSE LET tan == isArcTangentToArc(e1[1][1], e1[1][2], e1[2][1], e1[2][2],
                                      e2[2][1], e2[2][2])
             m1 == blendTangent(m, tan)
             st == fromRevArcSeg(e1[1][1], e1[1][2], e2[1][1], e2[1][2],
                                 e2[2][1], e2[2][2], e2[3], m1)
         IN  [m |-> AppendPatch(st, TanName(tan), k, "arc", <<e1[1], e2[1]>>),
              px1 |-> p1]

(***************************************************************************)
(* BBox.                                                                   *)
(***************************************************************************)
\* numpy.allclose(p1, p2): |a - b| <= atol + rtol * |b| on every axis.
allclose(p1, p2) ==
    \A k \in 1..3 :
        Abs(p1[k] - p2[k]) * rtolInv <= atol * rtolInv + Abs(p2[k])

\* np.all(p1 < p2) of two arrays.
allLess(p1, p2) == \A k \in 1..3 : p1[k] < p2[k]

\* BBox.__init__ with the order check left out (mutant).
BBoxInitNoOrder(p1, p2) ==
    IF allclose(p1, p2) THEN [err |-> "BBoxException", coords |-> <<>>]
    ELSE [err |-> "", coords |-> <<p1, p2>>]

\* BBox.__init__: [err |-> the exception, coords |-> self._coords]
BBoxInit(p1, p2) ==
    IF allclose(p1, p2) THEN [err |-> "BBoxException", coords |-> <<>>]
    ELSE IF ~allLess(p1, p2) THEN [err |-> "BBoxException", coords |-> <<>>]
    ELSE [err |-> "", coords |-> <<p1, p2>>]

\* np.min(vertices, axis=0), np.max(vertices, axis=0) of a non-empty list
AxisMin(vs, k) == CHOOSE x \in {vs[i][k] : i \in 1..Len(vs)} :
                      \A i \in 1..Len(vs) : x <= vs[i][k]
AxisMax(vs, k) == CHOOSE x \in {vs[i][k] : i \in 1..Len(vs)} :
                      \A i \in 1..Len(vs) : x >= vs[i][k]

\* BBox.fromVertices; numpy raises ValueError on an empty list.
fromVertices(vs) ==
    IF Len(vs) = 0 THEN [err |-> "ValueError", coords |-> <<>>]
    ELSE BBoxInit(<<AxisMin(vs, 1), AxisMin(vs, 2), AxisMin(vs, 3)>>,
                  <<AxisMax(vs, 1), AxisMax(vs, 2), AxisMax(vs, 3)>>)

(***************************************************************************)
(* SpecMesh: a caller drives the Mesh interface directly.                  *)
(***************************************************************************)
\* Positions a caller submits: three on a diagonal one unit apart (so that
\* the first and the third are within eps of the second but not of each
\* other) and one that shares its x with the first only.
Positions == {<<0, 0, 0>>, <<1, 1, 1>>, <<2, 2, 2>>, <<0, 2, 4>>}
\* Face normals a caller submits: two opposite ones.
FaceNormals == {<<1, 0, 0>>, <<-1, 0, 0>>}

\* The arguments <<v, n, apex>> of the addVertex calls; an apex vertex comes
\* with one normal (addVertex does not read the normal of an apex)
AddVertexArgs ==
    {a \in Positions \X FaceNormals \X BOOLEAN : a[3] => a[2] = <<1, 0, 0>>}

MeshInit ==
    /\ patches = EmptyMesh.patches
    /\ vertices = EmptyMesh.vertices
    /\ normals = EmptyMesh.normals
    /\ sharedVertices = EmptyMesh.sharedVertices
    /\ nVertices = EmptyMesh.nVertices
    /\ prevPatchStartIndex = EmptyMesh.prevPatchStartIndex
    /\ raw = EmptyMesh.raw
    /\ contrib = EmptyMesh.contrib
    /\ bbox = <<>>
    /\ cur = <<>>
    /\ call = [op |-> "Mesh", args |-> <<>>]
    /\ ret = -1
    /\ err = ""
    /\ pc = "idle"
    /\ profile = <<>>
    /\ callerProfile = <<>>
    /\ idx = 0
    /\ px1 = <<>>
    /\ ncall = 0
    /\ pre = EmptyMesh
    /\ built = <<>>

\* patch = Patch(mesh)
MeshNewPatch ==
    /\ cur = <<>>
    /\ Len(raw) < MaxCalls
    /\ cur' = <<Patch(MeshRec)>>
    /\ call' = [op |-> "Patch", args |-> <<>>]
    /\ ret' = -1
    /\ err' = ""
    /\ UNCHANGED <<meshVars, bbox, profVars>>

\* Patch.addTri, one of its three calls:
\* self._indices.append(self._mesh.addVertex(v, n, self._startIndex, apex))
MeshAddVertex(v, n, apex) ==
    /\ cur # <<>>
    /\ Len(raw) < MaxCalls
    /\ LET r == addVertex(MeshRec, v, n, cur[1].startIndex, apex)
       IN  /\ SetMesh(r.m)
           /\ ret' = r.ret
           /\ cur' = <<[cur[1] EXCEPT !.indices = Append(@, r.ret)]>>
    /\ call' = [op |-> "addVertex",
                args |-> <<v, n, cur[1].startIndex, apex>>]
    /\ err' = ""
    /\ UNCHANGED <<bbox, profVars>>

\* mesh.blendTangent(blend): addProfile calls it before it creates a patch,
\* addRevArcSeg calls blendTangent(False) while it builds one.
MeshBlendTangent(blend) ==
    /\ IF cur = <<>> THEN call.op \in {"Mesh", "append", "fromVertices"}
       ELSE ~blend /\ call.op = "addVertex"
    /\ SetMesh(blendTangent(MeshRec, blend))
    /\ call' = [op |-> "blendTangent", args |-> <<blend>>]
    /\ ret' = -1
    /\ err' = ""
    /\ UNCHANGED <<bbox, cur, profVars>>

\* mesh._patches.append(patch), once the patch has its triangles
MeshAppendPatch ==
    /\ cur # <<>>
    /\ Len(cur[1].indices) > 0
    /\ SetMesh([MeshRec EXCEPT !.patches = Append(@, cur[1])])
    /\ cur' = <<>>
    /\ call' = [op |-> "append", args |-> <<>>]
    /\ ret' = -1
    /\ err' = ""
    /\ UNCHANGED <<bbox, profVars>>

\* mesh._bbox = BBox.fromVertices(mesh._sharedVertices), as addProfile does
\* once its patches are appended
MeshFromVertices ==
    /\ cur = <<>>
    /\ call.op = "append"
    /\ LET b == fromVertices(sharedVertices)
       IN  /\ err' = b.err
           /\ bbox' = IF b.err = "" THEN b.coords ELSE bbox
    /\ call' = [op |-> "fromVertices", args |-> <<>>]
    /\ ret' = -1
    /\ UNCHANGED <<meshVars, cur, profVars>>

NextMesh ==
    \/ MeshNewPatch
    \/ \E a \in AddVertexArgs : MeshAddVertex(a[1], a[2], a[3])
    \/ \E blend \in BOOLEAN : MeshBlendTangent(blend)
    \/ MeshAppendPatch
    \/ MeshFromVertices

SpecMesh == MeshInit /\ [][NextMesh]_vars

(***************************************************************************)
(* SpecBBox: a caller constructs a box from two corner arrays.             *)
(***************************************************************************)
Coords == 0..MaxCoord
Corners == {<<x, y, z>> : x \in Coords, y \in Coords, z \in Coords}

\* box = BBox(p1, p2), p1 and p2 numpy arrays
BBoxNew(p1, p2) ==
    /\ call.op = "Mesh"
    /\ LET b == BBoxInit(p1, p2)
       IN  /\ err' = b.err
           /\ bbox' = IF b.err = "" THEN b.coords ELSE bbox
    /\ call' = [op |-> "BBox", args |-> <<p1, p2>>]
    /\ ret' = -1
    /\ UNCHANGED <<meshVars, cur, profVars>>

\* BBox.left .. BBox.front, of self._coords = <<p1, p2>>
left(c) == c[1][1]
right(c) == c[2][1]
bottom(c) == c[1][2]
top(c) == c[2][2]
back(c) == c[1][3]
front(c) == c[2][3]

\* BBox.vertices: the list it returns
BBoxVertices(c) ==
    << <<left(c), front(c), bottom(c)>>,
       <<right(c), front(c), bottom(c)>>,
       <<right(c), front(c), top(c)>>,
       <<left(c), front(c), top(c)>>,
       <<left(c), back(c), bottom(c)>>,
       <<right(c), back(c), bottom(c)>>,
       <<right(c), back(c), top(c)>>,
       <<left(c), back(c), top(c)>> >>

\* box.vertices() on a box that was constructed
BBoxVerticesCall ==
    /\ call.op = "BBox"
    /\ err = ""
    /\ call' = [op |-> "vertices", args |-> <<>>]
    /\ ret' = BBoxVertices(bbox)
    /\ UNCHANGED <<meshVars, bbox, cur, err, profVars>>

NextBBox ==
    \/ \E p1 \in Corners, p2 \in Corners : BBoxNew(p1, p2)
    \/ BBoxVerticesCall

SpecBBox == MeshInit /\ [][NextBBox]_vars

(***************************************************************************)
(* SpecProfile: the application builds a RevolvedMesh from a profile and   *)
(* may give it one more profile (machtool.py: toolModified, keyPressEvent).*)
(* addProfile runs one window of the profile per step.                     *)
(***************************************************************************)
MaxProfiles == 2

Arc(e, c, d) == <<e, c, d>>

\* The profiles the callers pass: tool outlines in grid units
Profiles == <<
    \* 1: end mill, flat bottom
    << <<0, 0>>, <<40, 0>>, <<40, 80>>, <<0, 80>> >>,
    \* 2: drill, cone tip
    << <<0, 0>>, <<40, 30>>, <<40, 80>>, <<0, 80>> >>,
    \* 3: bull mill, corner radius tangent to bottom and side
    << <<0, 0>>, <<20, 0>>, Arc(<<40, 20>>, <<20, 20>>, "cclw"),
       <<40, 80>>, <<0, 80>> >>,
    \* 4: ball mill, the arc starts at the tip
    << <<0, 0>>, Arc(<<40, 40>>, <<0, 40>>, "cclw"), <<40, 80>>, <<0, 80>> >>,
    \* 5: corner rounder, a concave arc that meets both lines at a corner
    << <<0, 0>>, <<20, 0>>, Arc(<<40, 20>>, <<40, 0>>, "clw"),
       <<40, 80>>, <<0, 80>> >>,
    \* 6: a sphere of two quarter arcs, ending in an arc on the axis
    << <<0, 0>>, Arc(<<40, 40>>, <<0, 40>>, "cclw"),
       Arc(<<0, 80>>, <<0, 40>>, "cclw") >>,
    \* 7: two arcs that meet at a corner, ending in an arc off the axis
    << <<0, 0>>, Arc(<<20, 20>>, <<0, 20>>, "cclw"),
       Arc(<<40, 40>>, <<20, 40>>, "cclw") >>,
    \* 8: a tube wall, both ends off the axis
    << <<40, 0>>, <<40, 80>> >>,
    \* 9: the empty profile
    << >>,
    \* 10: a profile with a zero-length line segment
    << <<0, 0>>, <<40, 0>>, <<40, 0>>, <<40, 80>> >>,
    \* 11: a profile that starts with an arc
    << Arc(<<40, 40>>, <<0, 40>>, "cclw"), <<40, 80>> >>,
    \* 12: a taper with a small corner arc, 30 degrees of span
    << <<0, 0>>, <<20, 0>>, Arc(<<30, 3>>, <<20, 20>>, "cclw"),
       <<40, 80>>, <<0, 80>> >>,
    \* 13: a torus, one arc of a full turn
    << <<20, 0>>, Arc(<<20, 0>>, <<40, 0>>, "cclw") >>,
    \* 14: a ball mill left open, ending in the line tangent to its arc
    << <<0, 0>>, Arc(<<40, 40>>, <<0, 40>>, "cclw"), <<40, 80>> >>,
    \* 15: a ring, 12's corner arc the long way round, 330 degrees of span
    << <<40, 0>>, Arc(<<50, 3>>, <<40, 20>>, "clw") >>
    >>

\* close=True reads e1[1] of the first element as a y coordinate: the
\* callers pass it a profile that starts with a point
Inputs == {<<k, close>> \in (1..Len(Profiles)) \X BOOLEAN :
              close /\ Len(Profiles[k]) > 0 => Len(Profiles[k][1]) = 2}

\* The profiles given to a mesh that has two profiles already: the end
\* mill, the ball mill and the torus
LaterProfiles == {1, 4, 13}

\* The inputs of the addProfile call after n earlier ones
InputsAt(n) ==
    IF n < 2 THEN Inputs
    ELSE {in \in Inputs : in[1] \in LaterProfiles /\ ~in[2]}

\* addProfile up to its loop: lines 500-512
AddProfileBegin(prof, close) ==
    LET c == CloseProfile(prof, close)
    IN  /\ call' = [op |-> "addProfile", args |-> <<prof, close>>]
        /\ ncall' = ncall + 1
        /\ pre' = MeshRec
        /\ err' = c.err
        /\ profile' = c.local
        /\ callerProfile' = c.caller
        /\ pc' = IF c.err = "" THEN "loop" ELSE "idle"
        /\ idx' = 0
        /\ px1' = <<>>
        /\ ret' = -1
        /\ UNCHANGED <<meshVars, bbox, cur, built>>

\* mesh = RevolvedMesh(profile, close=close)
RevolvedMeshNew(k, close) ==
    /\ pc = "idle"
    /\ ncall = 0
    /\ call.op = "Mesh"
    /\ IF Len(Profiles[k]) > 0
       THEN AddProfileBegin(Profiles[k], close)
       ELSE /\ call' = [op |-> "RevolvedMesh", args |-> <<Profiles[k], close>>]
            /\ ncall' = ncall + 1
            /\ pre' = MeshRec
            /\ err' = ""
            /\ profile' = Profiles[k]
            /\ callerProfile' = Profiles[k]
            /\ ret' = -1
            /\ UNCHANGED <<meshVars, bbox, cur, pc, idx, px1, built>>

\* mesh.addProfile(profile, close=close), on RevolvedMesh() or on a mesh
\* that has a profile already
AddProfile(k, close) ==
    /\ pc = "idle"
    /\ ncall < MaxProfiles
    /\ built = <<>>
    /\ AddProfileBegin(Profiles[k], close)

\* mesh2 = RevolvedMesh(); mesh2.addProfile(profile, close=close) with the
\* list object and the close flag that the first mesh was built from
Rebuild ==
    /\ pc = "idle"
    /\ ncall = 1
    /\ call.op = "addProfile"
    /\ built = <<>>
    /\ built' = <<[mesh |-> MeshRec, profile |-> call.args[1]]>>
    /\ SetMesh(EmptyMesh)
    /\ bbox' = <<>>
    /\ LET c == CloseProfile(callerProfile, call.args[2])
       IN  /\ call' = [op |-> "addProfile",
                       args |-> <<callerProfile, call.args[2]>>]
           /\ err' = c.err
           /\ profile' = c.local
           /\ callerProfile' = c.caller
           /\ pc' = IF c.err = "" THEN "loop" ELSE "idle"
    /\ pre' = EmptyMesh
    /\ idx' = 0
    /\ px1' = <<>>
    /\ ret' = -1
    /\ UNCHANGED <<cur, ncall>>

\* addProfile, one turn of "for e1, e2 in windowItr(profile, 2, 1)"
AddProfileStep ==
    /\ pc = "loop"
    /\ idx < Len(profile) - 1
    /\ \E w \in {windowItr(profile, 2, 1)[idx + 1]} :
          \E r \in {ProfileStep(MeshRec, w[1], w[2], px1, ncall)} :
             /\ SetMesh(r.m)
             /\ px1' = r.px1
    /\ idx' = idx + 1
    /\ UNCHANGED <<bbox, cur, call, ret, err, pc, profile, callerProfile,
                   ncall, pre, built>>

\* addProfile, after the loop:
\* self._bbox = BBox.fromVertices(self._sharedVertices)
\* The end of addProfile without line 563 (mutant).
AddProfileEndNoBBox ==
    /\ pc = "loop"
    /\ idx >= Len(profile) - 1
    /\ err' = ""
    /\ pc' = "idle"
    /\ UNCHANGED <<meshVars, bbox, cur, call, ret, profile, callerProfile, idx,
                   px1, ncall, pre, built>>

\* addProfile after its loop: line 563
AddProfileEnd ==
    /\ pc = "loop"
    /\ idx >= Len(profile) - 1
    /\ LET b == fromVertices(sharedVertices)
       IN  /\ err' = b.err
           /\ bbox' = IF b.err = "" THEN b.coords ELSE bbox
    /\ pc' = "idle"
    /\ UNCHANGED <<meshVars, cur, call, ret, profile, callerProfile, idx,
                   px1, ncall, pre, built>>

NextProfile ==
    \/ \E in \in Inputs : RevolvedMeshNew(in[1], in[2])
    \/ \E in \in InputsAt(ncall) : AddProfile(in[1], in[2])
    \/ Rebuild
    \/ AddProfileStep
    \/ AddProfileEnd

SpecProfile == MeshInit /\ [][NextProfile]_vars

(***************************************************************************)
(* SpecPath: a caller builds a Path2d, the list that elements() returns    *)
(* and that src/machtool.py:75 hands to addProfile (callerProfile).        *)
(***************************************************************************)
MaxPathLen == 3

\* Path2d.elements
elements == callerProfile

\* Path2d.isEmpty
isEmpty == elements = <<>>

\* The coordinates a caller passes
PathCoords == {0, 40}

\* What Path2d leaves alone
pathFrame == <<meshVars, bbox, cur, ret, pc, profile, idx, px1, ncall, pre,
               built>>

\* p = Path2d()
Path2dNew ==
    /\ call' = [op |-> "Path2d", args |-> <<>>]
    /\ callerProfile' = <<>>
    /\ err' = ""
    /\ UNCHANGED pathFrame

\* Path2d.moveTo
moveTo(x, y) ==
    /\ call' = [op |-> "moveTo", args |-> <<x, y>>]
    /\ callerProfile' = <<<<x, y>>>>
    /\ err' = ""
    /\ UNCHANGED pathFrame

\* Path2d.lineTo
lineTo(x, y) ==
    /\ Len(elements) < MaxPathLen
    /\ call' = [op |-> "lineTo", args |-> <<x, y>>]
    /\ IF isEmpty
       THEN err' = "Path2dException" /\ UNCHANGED callerProfile
       ELSE err' = "" /\ callerProfile' = Append(elements, <<x, y>>)
    /\ UNCHANGED pathFrame

\* arcTo without the isEmpty test (mutant).
arcToUnchecked(endX, endY, centerX, centerY, arcDir) ==
    /\ Len(elements) < MaxPathLen
    /\ call' = [op |-> "arcTo",
                args |-> <<endX, endY, centerX, centerY, arcDir>>]
    /\ err' = ""
    /\ callerProfile' =
          Append(elements, <<<<endX, endY>>, <<centerX, centerY>>, arcDir>>)
    /\ UNCHANGED pathFrame

\* Path2d.arcTo
arcTo(endX, endY, centerX, centerY, arcDir) ==
    /\ Len(elements) < MaxPathLen
    /\ call' = [op |-> "arcTo",
                args |-> <<endX, endY, centerX, centerY, arcDir>>]
    /\ IF isEmpty
       THEN err' = "Path2dException" /\ UNCHANGED callerProfile
       ELSE /\ err' = ""
            /\ callerProfile' =
                  Append(elements,
                         <<<<endX, endY>>, <<centerX, centerY>>, arcDir>>)
    /\ UNCHANGED pathFrame

NextPath ==
    \/ Path2dNew
    \/ \E x, y \in PathCoords : moveTo(x, y)
    \/ \E x, y \in PathCoords : lineTo(x, y)
    \/ \E x, y \in PathCoords : \E d \in {"cclw", "clw"} :
          arcTo(x, y, 0, 40, d)

SpecPath == MeshInit /\ [][NextPath]_vars

(***************************************************************************)
(* Claims about Mesh.addVertex and sharedVertices (SpecMesh) and about     *)
(* BBox (SpecBBox).  "Equal" positions are positions verticesEqual         *)
(* accepts.                                                                *)
(***************************************************************************)
SetMax(S) == CHOOSE x \in S : \A y \in S : y <= x
SetMin(S) == CHOOSE x \in S : \A y \in S : x <= y

\* The step just taken is an addVertex call (raw grows by the position).
IsAddVertexStep == call'.op = "addVertex" /\ Len(raw') = Len(raw) + 1

\* C1: after any sequence of addVertex calls the vertex buffer, the normal
\* buffer and the cached vertex count agree.
C1_BuffersAgree ==
    /\ Len(vertices) = Len(normals)
    /\ Len(normals) = nVertices

\* C1's case: vertices were appended and at least one call welded.
C1_Witness == nVertices >= 2 /\ Len(raw) > nVertices

\* C2: a non-apex addVertex(v, n, startIndex) welds to the highest index in
\* [min(startIndex, prevPatchStartIndex), vertexCount - 1] whose position
\* equals v (returns it, sums n into its normal, creates no vertex), and
\* appends (v, n), returning the old vertexCount, when there is none.
C2_WeldOrAppend ==
    [][(IsAddVertexStep /\ ~call'.args[4]) =>
         LET v == call'.args[1]
             n == call'.args[2]
             lo == Min2(call'.args[3], prevPatchStartIndex)
             hits == {i \in lo..(nVertices - 1) :
                         verticesEqual(vertices[i + 1], v)}
         IN  IF hits # {}
             THEN /\ ret' = SetMax(hits)
                  /\ nVertices' = nVertices
                  /\ vertices' = vertices
                  /\ normals' = [normals EXCEPT ![ret' + 1] =
                                     Normalize(VecAdd(normals[ret' + 1], n))]
             ELSE /\ ret' = nVertices
                  /\ nVertices' = nVertices + 1
                  /\ vertices' = Append(vertices, v)
                  /\ normals' = Append(normals, n)]_vars

\* C2's case: a call welded below its own patch's start, through the blend
\* window, to the higher of two matching vertices.
C2_Witness ==
    /\ call.op = "addVertex" /\ ~call.args[4]
    /\ ret < call.args[3]
    /\ \E i \in 0..(ret - 1) :
          /\ i >= prevPatchStartIndex
          /\ verticesEqual(vertices[i + 1], call.args[1])

\* C3: addVertex with apex=True appends a new vertex/normal pair and returns
\* the old vertexCount whatever the weld window holds; no stored normal
\* changes.
C3_ApexAppends ==
    [][(IsAddVertexStep /\ call'.args[4]) =>
         /\ ret' = nVertices
         /\ nVertices' = nVertices + 1
         /\ vertices' = Append(vertices, call'.args[1])
         /\ normals' = Append(normals, call'.args[2])]_vars

\* C3's case: an apex call whose position was already in its weld window.
C3_Witness ==
    /\ call.op = "addVertex" /\ call.args[4]
    /\ \E i \in 0..(ret - 1) :
          /\ i >= Min2(call.args[3], prevPatchStartIndex)
          /\ verticesEqual(vertices[i + 1], call.args[1])

\* C6: vertexCount never decreases, a vertex keeps the position it was
\* created with, and a normal changes only in an addVertex call that welds
\* to its vertex.
C6_VerticesStable ==
    [][/\ nVertices' >= nVertices
       /\ Len(vertices') >= Len(vertices)
       /\ \A i \in 1..Len(vertices) :
             /\ vertices'[i] = vertices[i]
             /\ normals'[i] # normals[i] =>
                   /\ IsAddVertexStep
                   /\ ~call'.args[4]
                   /\ ret' = i - 1]_vars

\* C6's case: a later call welded to a vertex from a position within eps of,
\* but not identical to, the vertex's own, and changed its normal.
C6_Witness ==
    /\ call.op = "addVertex" /\ ~call.args[4]
    /\ ret < nVertices
    /\ Len(contrib[ret + 1]) > 1
    /\ vertices[ret + 1] # call.args[1]
    /\ normals[ret + 1] # contrib[ret + 1][1][2]

\* C7: no two entries of sharedVertices are equal, and every position ever
\* submitted to addVertex equals some entry of sharedVertices.
C7_SharedIsGlobalDedup ==
    /\ \A i, j \in 1..Len(sharedVertices) :
          i # j => ~verticesEqual(sharedVertices[i], sharedVertices[j])
    /\ \A k \in 1..Len(raw) :
          \E i \in 1..Len(sharedVertices) :
             verticesEqual(raw[k], sharedVertices[i])

\* C7's case: the position submitted last equals the oldest entry, with
\* another entry after it, and was not entered again.
C7_Witness ==
    /\ Len(sharedVertices) >= 2
    /\ Len(raw) > Len(sharedVertices)
    /\ verticesEqual(raw[Len(raw)], sharedVertices[1])
    /\ ~verticesEqual(raw[Len(raw)], sharedVertices[Len(sharedVertices)])

RawMin == [k \in 1..3 |-> SetMin({raw[i][k] : i \in 1..Len(raw)})]
RawMax == [k \in 1..3 |-> SetMax({raw[i][k] : i \in 1..Len(raw)})]
BoxBuilt == call.op = "fromVertices" /\ err = ""

\* C8 as stated: the min and max of BBox.fromVertices(sharedVertices) equal
\* the min and max over all raw submitted positions.
C8_ExactExtents ==
    BoxBuilt => \A k \in 1..3 : bbox[1][k] = RawMin[k] /\ bbox[2][k] = RawMax[k]

\* C8 amended: whenever BBox.fromVertices(sharedVertices) returns a box, its
\* min and max are within eps (1e-8) of the min and max over all raw
\* submitted positions, on every axis.
C8_ExtentsWithinEps ==
    BoxBuilt => \A k \in 1..3 :
        /\ 0 <= bbox[1][k] - RawMin[k] /\ bbox[1][k] - RawMin[k] <= eps
        /\ 0 <= RawMax[k] - bbox[2][k] /\ RawMax[k] - bbox[2][k] <= eps

\* C8's case: a box was built after the dedup dropped a raw extreme.
C8_Witness ==
    /\ BoxBuilt
    /\ Len(sharedVertices) < Len(raw)
    /\ \E k \in 1..3 : bbox[1][k] # RawMin[k]

IdxSet(p) == {p.indices[j] : j \in 1..Len(p.indices)}

\* Sample k of the ring that revolving the profile point pt gives
RingPos(pt, k) ==
    <<Scaled(pt[1], sincos[k][1][1]), pt[2], Scaled(pt[1], sincos[k][1][2])>>

\* The vertex entries that patch a or patch b references at ring sample k of
\* the boundary they share, the start point of b
BoundaryEntries(a, b, k) ==
    {j \in IdxSet(a) \cup IdxSet(b) :
        verticesEqual(vertices[j + 1], RingPos(b.ends[1], k))}

\* Patches i and i + 1 come from adjacent segments of one profile
Adjacent(i) == i + 1 <= Len(patches) /\ patches[i].call = patches[i + 1].call

\* The running sum addVertex keeps: each face normal added, then normalized
RECURSIVE RunningNormal(_, _)
RunningNormal(cs, j) ==
    IF j = 1 THEN cs[1][2]
    ELSE Normalize(VecAdd(RunningNormal(cs, j - 1), cs[j][2]))

\* C4: two adjacent profile segments whose tangency test is false share no
\* vertex index, and every ring position of their boundary has two vertex
\* entries, one per patch (2 x ring sample count for the boundary ring).
C4_SharpEdge ==
    \A i \in 1..Len(patches) :
       (Adjacent(i) /\ patches[i + 1].tan = "sharp") =>
          LET a == patches[i]
              b == patches[i + 1]
          IN  /\ IdxSet(a) \cap IdxSet(b) = {}
              /\ b.ends[1][1] > eps =>
                    \A k \in 1..segs :
                       Cardinality(BoundaryEntries(a, b, k)) = 2

\* C4's case: a line and an arc that meet at a corner off the axis, both
\* patches built.
C4_Witness ==
    \E i \in 1..Len(patches) :
       /\ Adjacent(i)
       /\ patches[i + 1].tan = "sharp"
       /\ patches[i].kind = "line"
       /\ patches[i + 1].kind = "arc"
       /\ patches[i + 1].ends[1][1] > eps

\* C5: where a line and an arc pass the tangency test at their junction,
\* every ring position of the boundary has a single vertex entry, both
\* patches reference it, and its normal is the normalized running sum of
\* face normals of which some came from each patch.
C5_TangentBlend ==
    \A i \in 1..Len(patches) :
       (/\ Adjacent(i)
        /\ patches[i + 1].tan = "tangent"
        /\ patches[i].kind # patches[i + 1].kind
        /\ patches[i + 1].ends[1][1] > eps) =>
          LET a == patches[i]
              b == patches[i + 1]
          IN  \A k \in 1..segs :
                 \E j \in IdxSet(a) \cap IdxSet(b) :
                    /\ BoundaryEntries(a, b, k) = {j}
                    /\ \E c \in 1..Len(contrib[j + 1]) :
                          contrib[j + 1][c][1] = i
                    /\ \E c \in 1..Len(contrib[j + 1]) :
                          contrib[j + 1][c][1] = i + 1
                    /\ normals[j + 1] =
                          RunningNormal(contrib[j + 1], Len(contrib[j + 1]))

\* C5's case: a line tangent to the arc it runs into and an arc tangent to
\* the line that leaves it, all three patches built.
C5_Witness ==
    /\ \E i \in 1..Len(patches) :
          /\ Adjacent(i)
          /\ patches[i + 1].tan = "tangent"
          /\ patches[i].kind = "line"
          /\ patches[i + 1].kind = "arc"
          /\ patches[i + 1].ends[1][1] > eps
    /\ \E i \in 1..Len(patches) :
          /\ Adjacent(i)
          /\ patches[i + 1].tan = "tangent"
          /\ patches[i].kind = "arc"
          /\ patches[i + 1].kind = "line"
          /\ patches[i + 1].ends[1][1] > eps

\* The end point of a profile element
EndPoint(e) == IF Len(e) = 2 THEN e ELSE e[1]

\* A structurally invalid profile: empty, not starting with a point, or with
\* a segment whose two end points coincide
Invalid(prof) ==
    \/ Len(prof) = 0
    \/ Len(prof[1]) # 2
    \/ \E i \in 1..(Len(prof) - 1) : EndPoint(prof[i]) = EndPoint(prof[i + 1])

\* An addProfile call has returned or raised
Returned == pc = "idle" /\ call.op = "addProfile"

\* C10: addProfile on a structurally invalid profile raises an error and
\* leaves patches, vertices, normals and sharedVertices as they were before
\* the call.
C10_InvalidRejected ==
    (Returned /\ Invalid(call.args[1])) =>
       /\ err # ""
       /\ patches = pre.patches
       /\ vertices = pre.vertices
       /\ normals = pre.normals
       /\ sharedVertices = pre.sharedVertices

\* The index buffer of each patch, in patch order
PatchIndices(ps) == [i \in 1..Len(ps) |-> ps[i].indices]

\* C11: a second mesh built from the same profile object with the same close
\* flag has the vertex, normal and per-patch index buffers of the first,
\* also where the first build appended to the caller's list.
C11_RebuildIdentical ==
    (built # <<>> /\ pc = "idle") =>
       /\ vertices = built[1].mesh.vertices
       /\ normals = built[1].mesh.normals
       /\ PatchIndices(patches) = PatchIndices(built[1].mesh.patches)

\* C11's case: the first build changed the caller's list, and the second
\* build, given that list, has finished with patches.
C11_Witness ==
    /\ built # <<>>
    /\ pc = "idle"
    /\ call.args[1] # built[1].profile
    /\ Len(patches) > 0

RingSizes == {1, 2, 3, 4, 6, 9, 12, 18, 36}

\* A strip <<x1, y1, x2, y2>> with an end on the axis is a fan
IsFan(strip) == allcloseNum(strip[1], 0) \/ allcloseNum(strip[3], 0)

\* The triangles of a strip: a fan has one per sample pair, a ring two
StripTris(strip) == IF IsFan(strip) THEN Len(sincos) ELSE 2 * Len(sincos)

\* The triangles of the first j strips of a patch
RECURSIVE TrisUpTo(_, _)
TrisUpTo(p, j) ==
    IF j = 0 THEN 0 ELSE TrisUpTo(p, j - 1) + StripTris(p.strips[j])

\* The cache closes the ring: nSegs pairs, each starting where the one
\* before ended, the last ending where the first starts
CacheCloses(nSegs) ==
    LET c == getSinCosCache(nSegs)
    IN  /\ Len(c) = nSegs
        /\ \A i \in 1..(nSegs - 1) : c[i][2] = c[i + 1][1]
        /\ c[nSegs][2] = c[1][1]

\* Sample pair k of ring strip j of patch p: triangles (a, b, c) and
\* (d, a, c) with one index for a and one for c, and the pair after it (the
\* first, after the last) starts at this pair's b and c
PairWatertight(p, j, k) ==
    LET at(kk, n) == p.indices[3 * TrisUpTo(p, j - 1) + 6 * (kk - 1) + n]
        next == IF k = Len(sincos) THEN 1 ELSE k + 1
    IN  /\ at(k, 5) = at(k, 1)
        /\ at(k, 6) = at(k, 3)
        /\ at(k, 2) = at(next, 1)
        /\ at(k, 3) = at(next, 4)

\* C13: the sin/cos cache of nSegs samples closes the ring, and a ring
\* strip (both ends off the axis) has two triangles per sample pair, which
\* share the edge a-c, the last pair joining the first.
C13_WatertightRing ==
    /\ \A n \in RingSizes : CacheCloses(n)
    /\ \A i \in 1..Len(patches) :
          \A j \in 1..Len(patches[i].strips) :
             LET strip == patches[i].strips[j]
             IN  ~IsFan(strip)
                 => /\ Len(patches[i].indices) >= 3 * TrisUpTo(patches[i], j)
                    /\ \A k \in 1..Len(sincos) :
                          PairWatertight(patches[i], j, k)

\* C13's case: a ring strip of a line patch and one of an arc patch, built.
C13_Witness ==
    /\ \E i \in 1..Len(patches) :
          /\ patches[i].kind = "line"
          /\ ~IsFan(patches[i].strips[1])
    /\ \E i \in 1..Len(patches) :
          /\ patches[i].kind = "arc"
          /\ \E j \in 1..Len(patches[i].strips) : ~IsFan(patches[i].strips[j])

\* The list addProfile should walk: the caller's profile with an on-axis
\* point put before an off-axis start and after an off-axis end when close
\* is set, and nothing else
ClosedAsDocumented(prof, close) ==
    LET s == EndPoint(prof[1])
        e == EndPoint(prof[Len(prof)])
    IN  (IF close /\ s[1] # 0 THEN <<<<0, s[2]>>>> ELSE <<>>)
        \o prof
        \o (IF close /\ e[1] # 0 THEN <<<<0, e[2]>>>> ELSE <<>>)

\* C14: with close set, an on-axis point at the height of an end is
\* inserted at that end exactly when the end is off the axis, for a profile
\* ending in a point and for one ending in an arc; without close, or at an
\* end on the axis, nothing is inserted.
C14_ClosureIffOffAxis ==
    (call.op = "addProfile" /\ Len(call.args[1]) > 0)
        => profile = ClosedAsDocumented(call.args[1], call.args[2])

\* No addProfile call on the mesh has returned yet
NoneCompleted ==
    \/ ncall = 0
    \/ ncall = 1 /\ (pc = "loop" \/ err # "")

\* C15: bbox() is None until an addProfile call on the mesh has returned;
\* once one has returned it is the BBox of sharedVertices as they were at
\* that return, and it changes at no other moment.
C15_BBoxAfterAddProfile ==
    /\ [](NoneCompleted => bbox = <<>>)
    /\ []((Returned /\ err = "")
             => bbox = fromVertices(sharedVertices).coords)
    /\ [][bbox' # bbox => \/ pc = "loop" /\ pc' = "idle" /\ err' = ""
                          \/ built' # built /\ bbox' = <<>>]_vars

\* C15's case: a second addProfile has returned, the box covers the
\* vertices of both profiles.
C15_Witness ==
    /\ Returned /\ err = "" /\ ncall = 2
    /\ bbox # <<>>
    /\ \E i \in 1..Len(patches) : patches[i].call = 2 /\ patches[i].nTris > 0

\* The triangles of all patches
RECURSIVE TotalTris(_, _)
TotalTris(ps, n) == IF n = 0 THEN 0 ELSE TotalTris(ps, n - 1) + ps[n].nTris

\* The triangles the strips of all patches call for
RECURSIVE TotalStripTris(_, _)
TotalStripTris(ps, n) ==
    IF n = 0 THEN 0
    ELSE TotalStripTris(ps, n - 1) + TrisUpTo(ps[n], Len(ps[n].strips))

\* C16: with N = segs, a revolved line segment with an end on the axis adds
\* N triangles and any other 2N; a line patch is one such segment, an arc
\* patch the sum over its sub-strips, the mesh the sum over its patches.
C16_TriangleCount ==
    /\ Len(sincos) = segs
    /\ \A i \in 1..Len(patches) :
          LET p == patches[i]
          IN  /\ p.kind = "line" =>
                    /\ Len(p.strips) = 1
                    /\ p.nTris = IF IsFan(p.strips[1]) THEN segs ELSE 2 * segs
              /\ p.kind = "arc" => Len(p.strips) = p.arcSegs
              /\ p.nTris = TrisUpTo(p, Len(p.strips))
              /\ Len(p.indices) = 3 * p.nTris
    /\ TotalTris(patches, Len(patches))
           = TotalStripTris(patches, Len(patches))

\* C16's case: a finished mesh with an apex fan, an arc patch of rings and
\* a shank ring.
C16_Witness ==
    /\ Returned /\ err = ""
    /\ \E i \in 1..Len(patches) :
          patches[i].kind = "line" /\ IsFan(patches[i].strips[1])
    /\ \E i \in 1..Len(patches) :
          /\ patches[i].kind = "arc"
          /\ \A j \in 1..Len(patches[i].strips) : ~IsFan(patches[i].strips[j])
    /\ \E i \in 1..Len(patches) :
          patches[i].kind = "line" /\ ~IsFan(patches[i].strips[1])

\* C17: every stored normal has unit length; none is the zero vector,
\* whatever face normals were summed into it.
C17_NormalsUnit == \A i \in 1..Len(normals) : normals[i] # <<0, 0, 0>>

\* C18: a Path2d built without a start point is empty or begins with a
\* point, whatever moveTo, lineTo and arcTo calls were made; lineTo and arcTo
\* on an empty path raise Path2dException and leave it empty.
C18_PathStartsWithPoint ==
    /\ [](isEmpty \/ Len(elements[1]) = 2)
    /\ [][(isEmpty /\ call'.op \in {"lineTo", "arcTo"})
            => (err' = "Path2dException" /\ elements' = <<>>)]_vars
    /\ [](err = "Path2dException" => isEmpty)

\* C18's case: lineTo or arcTo was called on an empty path and raised.
C18_Witness ==
    /\ call.op \in {"lineTo", "arcTo"}
    /\ err = "Path2dException"
    /\ isEmpty

\* C19: blendTangent(True) sets prevPatchStartIndex to the start index of
\* the patch appended last, or to the sentinel when the mesh has no patch;
\* blendTangent(False) sets it to the sentinel, which leaves a patch's own
\* start index as the lower bound of the search; neither changes vertices,
\* normals, sharedVertices or patches.
C19_BlendTangentFrame ==
    /\ [][call'.op = "blendTangent" =>
            /\ prevPatchStartIndex' =
                  IF call'.args[1] /\ Len(patches) > 0
                  THEN patches[Len(patches)].startIndex
                  ELSE Sentinel
            /\ UNCHANGED <<vertices, normals, sharedVertices, patches>>]_vars
    /\ [](\A start \in 0..nVertices :
            prevPatchStartIndex = Sentinel
               => Min2(start, prevPatchStartIndex) = start)

\* C19's case: blendTangent(True) on a mesh of two patches took the start
\* of the second.
C19_Witness ==
    /\ call.op = "blendTangent" /\ call.args[1]
    /\ Len(patches) = 2
    /\ patches[1].startIndex # patches[2].startIndex
    /\ prevPatchStartIndex = patches[2].startIndex

\* The lowest index a vertex of patch k may have: the start of patch k - 1
\* when k is tangent to it, the start of k itself otherwise
WindowStart(ps, k) ==
    IF k > 1 /\ ps[k].tan = "tangent" THEN Min2(ps[k - 1].startIndex,
                                                 ps[k].startIndex)
    ELSE ps[k].startIndex

\* C20: the addVertex calls made while patch k is built return, and change
\* the normal of, no vertex below the start of patch k - 1, and none below
\* the start of patch k itself when k is not tangent to k - 1.
C20_WeldWindow ==
    /\ [](\A k \in 1..Len(patches) :
            \A j \in 1..Len(patches[k].indices) :
               patches[k].indices[j] >= WindowStart(patches, k))
    /\ [][Len(patches') = Len(patches) + 1 =>
            \A i \in 1..WindowStart(patches', Len(patches')) :
               normals'[i] = normals[i]]_vars

\* Two profile points one grid unit apart at most (the arc strips' ends are
\* rounded to the grid)
NearPoint(p, q) == Abs(p[1] - q[1]) <= 1 /\ Abs(p[2] - q[2]) <= 1

\* Patch p is the patch that the pair <<e1, e2>> calls for: a revolved line
\* to a point, a revolved arc to an arc, from the end point of e1
PatchOfPair(p, e1, e2) ==
    /\ p.kind = IF Len(e2) = 2 THEN "line" ELSE "arc"
    /\ p.ends = <<EndPoint(e1), EndPoint(e2)>>
    /\ Len(p.strips) >= 1
    /\ NearPoint(<<p.strips[1][1], p.strips[1][2]>>, EndPoint(e1))
    /\ NearPoint(<<p.strips[Len(p.strips)][3], p.strips[Len(p.strips)][4]>>,
                 EndPoint(e2))

\* The pairs of the walked profile that addProfile has handled so far
PairsDone == IF pc = "loop" THEN idx ELSE Max2(Len(profile) - 1, 0)

\* C21: addProfile creates one patch per consecutive pair of the walked
\* profile, in order, a revolved line for a pair ending in a point and a
\* revolved arc for a pair ending in an arc, starting at the end point of the
\* pair's first element; a patch starts at the vertex count of its creation,
\* so start indices never decrease.
C21_PatchPerPair ==
    /\ [](call.op = "addProfile" =>
            /\ Len(patches) = Len(pre.patches) + PairsDone
            /\ \A j \in 1..PairsDone :
                  PatchOfPair(patches[Len(pre.patches) + j],
                              profile[j], profile[j + 1]))
    /\ [](\A k \in 2..Len(patches) :
            patches[k - 1].startIndex <= patches[k].startIndex)
    /\ [][Len(patches') = Len(patches) + 1 =>
            patches'[Len(patches')].startIndex = nVertices]_vars

\* C21's case: a finished mesh with a patch of each pair shape: point to
\* point, point to arc, arc to point, arc to arc.
C21_Witness ==
    /\ Returned /\ err = ""
    /\ \E k \in 1..Len(patches) : patches[k].tan = "off"
    /\ \E k \in 1..Len(patches) :
          patches[k].kind = "arc" /\ patches[k].tan = "none"
    /\ \E k \in 1..Len(patches) :
          patches[k].kind = "line" /\ patches[k].tan \in {"tangent", "sharp"}
    /\ \E k \in 2..Len(patches) :
          /\ patches[k].kind = "arc" /\ patches[k - 1].kind = "arc"
          /\ patches[k].call = patches[k - 1].call

\* The line from a to the shared point s (or from s to a) is perpendicular
\* to the radius from the centre c to s
Perpendicular(a, s, c) ==
    (s[1] - a[1]) * (s[1] - c[1]) + (s[2] - a[2]) * (s[2] - c[2]) = 0

\* What addProfile must pass to blendTangent for pair j of the walked
\* profile, where pair j joins a line and an arc; "" for any other pair
LineArcVerdict(prof, j) ==
    LET e1 == prof[j]
        e2 == prof[j + 1]
    IN  IF Len(e1) = 3 /\ Len(e2) = 2
        THEN IF Perpendicular(e2, e1[1], e1[2]) THEN "tangent" ELSE "sharp"
        ELSE IF Len(e1) = 2 /\ Len(e2) = 3 /\ j > 1
        THEN IF Perpendicular(EndPoint(prof[j - 1]), e1, e2[2])
             THEN "tangent" ELSE "sharp"
        ELSE ""

\* C22: for an arc that follows a line and for a line that follows an arc,
\* blending is switched on before the patch is built exactly when the line
\* is perpendicular to the radius at the shared point; otherwise
\* blendTangent(False) is in force.
C22_LineArcTangency ==
    /\ call.op = "addProfile" =>
          \A j \in 1..PairsDone :
             LineArcVerdict(profile, j) # "" =>
                patches[Len(pre.patches) + j].tan = LineArcVerdict(profile, j)
    /\ (call.op = "addProfile" /\ PairsDone > 0
          /\ Len(profile[PairsDone]) = 3 /\ Len(profile[PairsDone + 1]) = 2) =>
          prevPatchStartIndex =
             IF LineArcVerdict(profile, PairsDone) = "tangent"
                /\ Len(patches) > 1
             THEN patches[Len(patches) - 1].startIndex
             ELSE Sentinel

\* C22's case: an arc tangent to the line before it, a line tangent to the
\* arc before it, and an arc and a line that meet the other at a corner.
C22_Witness ==
    /\ Returned /\ err = ""
    /\ \E k \in 2..Len(patches) :
          /\ patches[k].kind = "arc" /\ patches[k].tan = "tangent"
          /\ patches[k - 1].kind = "line"
    /\ \E k \in 2..Len(patches) :
          /\ patches[k].kind = "arc" /\ patches[k].tan = "sharp"
          /\ patches[k - 1].kind = "line"
    /\ \E k \in 2..Len(patches) :
          /\ patches[k].kind = "line" /\ patches[k].tan = "tangent"
          /\ patches[k - 1].kind = "arc"
    /\ \E k \in 2..Len(patches) :
          /\ patches[k].kind = "line" /\ patches[k].tan = "sharp"
          /\ patches[k - 1].kind = "arc"

\* Two arcs with centres c1 and c2 are tangent at their common point s: the
\* radii from c1 and from c2 to s lie on one line
RadiiParallel(s, c1, c2) ==
    (s[1] - c1[1]) * (s[2] - c2[2]) - (s[2] - c1[2]) * (s[1] - c2[1]) = 0

\* C23: for an arc that follows an arc, blending is switched on only when
\* the two arcs are tangent at their common point, which depends on both
\* centres; two arcs that meet at a corner get blendTangent(False) and a
\* sharp boundary.
C23_ArcArcTangency ==
    call.op = "addProfile" =>
       \A j \in 1..PairsDone :
          (Len(profile[j]) = 3 /\ Len(profile[j + 1]) = 3) =>
             (patches[Len(pre.patches) + j].tan = "tangent"
                <=> RadiiParallel(profile[j][1], profile[j][2],
                                  profile[j + 1][2]))

\* max(round(|span| / angleStep), 3) with angleStep = 360 / segs
RoundedSegs(span) ==
    LET angstep == 360 \div segs
    IN  Max2((2 * Abs(span) + angstep) \div (2 * angstep), 3)

\* The span of the arc of the pair <<e1, e2>>, e2 an arc
PairSpan(e1, e2) ==
    LET s == EndPoint(e1)
        v1 == <<s[1] - e2[2][1], s[2] - e2[2][2]>>
        v2 == <<e2[1][1] - e2[2][1], e2[1][2] - e2[2][2]>>
    IN  ArcFromVectors(v1, v2, VLen(v1), e2[3] = "cclw").span

\* C24: an arc of span s is cut into max(round(|s| / angleStep), 3)
\* sub-segments, angleStep = 360 / segs, for every span in (0, 360].
C24_RoundedArcSegs ==
    call.op = "addProfile" =>
       \A j \in 1..PairsDone :
          Len(profile[j + 1]) = 3 =>
             patches[Len(pre.patches) + j].arcSegs
                = RoundedSegs(PairSpan(profile[j], profile[j + 1]))

\* C25: in an arc patch only the first sub-strip can blend with the patch
\* before: the indices of sub-strips 2..segs are at or above the arc patch's
\* own start index, and prevPatchStartIndex is the sentinel once
\* addRevArcSeg has returned.
C25_FirstStripOnly ==
    /\ \A k \in 1..Len(patches) :
          patches[k].kind = "arc" =>
             \A j \in (3 * TrisUpTo(patches[k], 1) + 1)
                      ..Len(patches[k].indices) :
                patches[k].indices[j] >= patches[k].startIndex
    /\ (Len(patches) > 0 /\ patches[Len(patches)].kind = "arc")
          => prevPatchStartIndex = Sentinel

\* C25's case: an arc patch whose first sub-strip is welded to the patch
\* before it and that has further sub-strips.
C25_Witness ==
    \E k \in 2..Len(patches) :
       /\ patches[k].kind = "arc"
       /\ patches[k].arcSegs >= 3
       /\ \E j \in 1..(3 * TrisUpTo(patches[k], 1)) :
             patches[k].indices[j] < patches[k].startIndex
       /\ patches[k - 1].startIndex < patches[k].startIndex

\* The place in the index list of patch p of the on-axis vertex of
\* triangle t of fan strip j (addTri's first vertex)
ApexPlace(p, j, t) == 3 * TrisUpTo(p, j - 1) + 3 * (t - 1) + 1

\* The on-axis vertex of triangle t of fan strip j of patch p was appended,
\* not welded: its index is new to the patch and lies in it
ApexAppended(p, j, t) ==
    LET at == ApexPlace(p, j, t)
    IN  /\ p.indices[at] >= p.startIndex
        /\ \A q \in 1..(at - 1) : p.indices[q] # p.indices[at]

\* C26: in a fan (one end of the segment on the axis) the on-axis vertex
\* carries the apex flag and is never welded, for a flat end-cap (y1 = y2)
\* and for a cone (y1 # y2).
C26_ApexNeverWelded ==
    \A k \in 1..Len(patches) :
       \A j \in 1..Len(patches[k].strips) :
          IsFan(patches[k].strips[j]) =>
             \A t \in 1..Len(sincos) : ApexAppended(patches[k], j, t)

\* A fan strip between two equal heights: a flat end-cap
IsFlat(strip) == allcloseNum(strip[2], strip[4])

\* C26, amended: the on-axis vertex of a fan carries the apex flag and is
\* never welded when the two heights differ (cone); when they are equal
\* (flat end-cap) it goes without the flag and the triangles of the fan
\* share one welded centre vertex.
C26_ApexOnConeOnly ==
    \A k \in 1..Len(patches) :
       \A j \in 1..Len(patches[k].strips) :
          IsFan(patches[k].strips[j]) =>
             \A t \in 1..Len(sincos) :
                IF IsFlat(patches[k].strips[j])
                THEN patches[k].indices[ApexPlace(patches[k], j, t)]
                        = patches[k].indices[ApexPlace(patches[k], j, 1)]
                ELSE ApexAppended(patches[k], j, t)

\* C26's case: a finished mesh with a cone fan and a flat end-cap.
C26_Witness ==
    /\ Returned /\ err = ""
    /\ \E k \in 1..Len(patches) :
          IsFan(patches[k].strips[1]) /\ IsFlat(patches[k].strips[1])
    /\ \E k \in 1..Len(patches) :
          IsFan(patches[k].strips[1]) /\ ~IsFlat(patches[k].strips[1])

\* C27: addProfile leaves the caller's list as it was passed in: the same
\* elements in the same order, whatever close is and wherever the ends are.
C27_CallerProfileKept ==
    call.op = "addProfile" => callerProfile = call.args[1]

\* C28: BBox.vertices() returns the 8 corners of the box as <<x, y, z>>:
\* the 8 combinations of x, y and z of p1 and p2, each once, in the axis
\* order of p1 and p2.
C28_BBoxCorners ==
    call.op = "vertices" =>
       /\ Len(ret) = 8
       /\ \A i, j \in 1..8 : i # j => ret[i] # ret[j]
       /\ {ret[i] : i \in 1..8}
             = {<<x, y, z>> : x \in {bbox[1][1], bbox[2][1]},
                              y \in {bbox[1][2], bbox[2][2]},
                              z \in {bbox[1][3], bbox[2][3]}}

\* The index lists of the first n patches, one after the other
RECURSIVE AllIndices(_, _)
AllIndices(ps, n) ==
    IF n = 0 THEN <<>> ELSE AllIndices(ps, n - 1) \o ps[n].indices

\* C29: every index that addTri stored for a submitted position v lies in
\* 0..vertexCount - 1 and the vertex there equals v within the weld epsilon,
\* whether addVertex welded, appended or was given an apex.
C29_IndexValid ==
    LET all == AllIndices(patches, Len(patches))
    IN  /\ Len(all) = Len(raw)
        /\ \A q \in 1..Len(all) :
              /\ 0 <= all[q] /\ all[q] < nVertices
              /\ verticesEqual(vertices[all[q] + 1], raw[q])

\* C29's case: a finished mesh with a cone apex, an index used twice in a
\* patch and an index that welds into the patch before.
C29_Witness ==
    /\ Returned /\ err = ""
    /\ \E k \in 1..Len(patches) :
          IsFan(patches[k].strips[1]) /\ ~IsFlat(patches[k].strips[1])
    /\ \E k \in 1..Len(patches) :
          \E i, j \in 1..Len(patches[k].indices) :
             i # j /\ patches[k].indices[i] = patches[k].indices[j]
    /\ \E k \in 1..Len(patches) :
          \E i \in 1..Len(patches[k].indices) :
             patches[k].indices[i] < patches[k].startIndex

\* Patch k is the first patch that its addProfile call built
FirstOfCall(ps, k) == k = 1 \/ ps[k].call # ps[k - 1].call

\* C30: the blend state does not carry over from one addProfile call to the
\* next: the first patch of a call, also of one whose profile starts point
\* -> arc, welds none of its vertices to a vertex from before the call.
C30_NoCarryOver ==
    \A k \in 1..Len(patches) :
       FirstOfCall(patches, k) =>
          \A j \in 1..Len(patches[k].indices) :
             patches[k].indices[j] >= patches[k].startIndex

====
